---- MODULE Spec2Model ----
(***************************************************************************)
(* Model of packages/source-wordpress/index.js: WordPressSource.apply,     *)
(* fetchPaged, taskHandler and ensureArrayData, together with the          *)
(* better-queue instance fetchPaged creates and the promise it returns.    *)
(*                                                                         *)
(* JavaScript runs every handler to completion, so each action is one      *)
(* whole handler: the arrival of an HTTP response together with the        *)
(* synchronous code it triggers.  The continuation of `await fetchPaged`   *)
(* in apply is a microtask: it runs before any other event, which the      *)
(* guard ~ResumePending of the event actions expresses.                    *)
(***************************************************************************)
EXTENDS Integers, Sequences, FiniteSets, TLC

\* ---------------------------------------------------------------- bounds
MaxPages == 3        \* largest total-pages value a first response reports
MaxConcurrent == 2   \* largest value of options.concurrent
PerPage == 2         \* records in one page (options.perPage)

\* ----------------------------------------------------------- remote data
\* parseInt of an absent or non-numeric header
NaN == -1
\* one character of a text value (what spreading a string yields)
Char == 0

\* the listings GET /types and GET /taxonomies return, in key order
TypesListing == <<"post", "attachment">>
TaxonomiesListing == <<"category">>

\* restBases.posts: every listed type except 'attachment'
PostTypes == SelectSeq(TypesListing, LAMBDA t : t # "attachment")

\* the endpoints apply fetches, in the order of its two loops
EndpointNames == PostTypes \o TaxonomiesListing
NumEndpoints == Len(EndpointNames)
Endpoints == 1..NumEndpoints

Pages == 1..MaxPages
QueuedPages == 2..MaxPages

\* values the two pagination headers parse to
ItemsValues == {NaN, 0, 1}
PagesValues == {NaN} \cup (0..MaxPages)

\* the records the remote API holds on page p of endpoint e, in API order
Records(e, p) == [i \in 1..PerPage |-> e * 100 + p * 10 + i]

\* JavaScript values a page body can denote
ArrayVal(s) == [t |-> "array", items |-> s]
ObjectVal == [t |-> "object", items |-> <<>>]
StringVal == [t |-> "string", items |-> <<Char, Char>>]

BodyKinds == {"array", "textArray", "textObject", "textString", "garbage"}

\* response.data of page p of endpoint e, for each kind of body
Body(kind, e, p) ==
  CASE kind = "array"      -> [text |-> FALSE, parses |-> FALSE, v |-> ArrayVal(Records(e, p))]
    [] kind = "textArray"  -> [text |-> TRUE, parses |-> TRUE, v |-> ArrayVal(Records(e, p))]
    [] kind = "textObject" -> [text |-> TRUE, parses |-> TRUE, v |-> ObjectVal]
    [] kind = "textString" -> [text |-> TRUE, parses |-> TRUE, v |-> StringVal]
    [] OTHER               -> [text |-> TRUE, parses |-> FALSE, v |-> ObjectVal]

\* ------------------------------------------------------- pure functions
\* Array.isArray(data)
IsArray(data) == ~data.text /\ data.v.t = "array"

\* JSON.parse(data): the encoded value, or a SyntaxError
JSONparse(data) ==
  IF data.text /\ data.parses
    THEN [threw |-> FALSE, val |-> data.v]
    ELSE [threw |-> TRUE, val |-> ObjectVal]

\* ensureArrayData(url, data)
ensureArrayData(data) ==
  IF ~IsArray(data)
    THEN JSONparse(data)
    ELSE [threw |-> FALSE, val |-> data.v]

\* variant: the spread appends the page's records back to front
PushSpread_Reversed(target, x) ==
  IF target.t # "array" \/ x.t = "object"
    THEN [threw |-> TRUE, val |-> target]
    ELSE [threw |-> FALSE,
          val |-> ArrayVal(target.items \o [i \in 1..Len(x.items) |-> x.items[Len(x.items) + 1 - i]])]

\* res.data.push(...x)
PushSpread(target, x) ==
  IF target.t # "array" \/ x.t = "object"
    THEN [threw |-> TRUE, val |-> target]
    ELSE [threw |-> FALSE, val |-> ArrayVal(target.items \o x.items)]

\* !totalItems
Falsy(n) == n = NaN \/ n = 0

\* variant: totalPages < 1
AtMostOne_Strict(n) == n # NaN /\ n < 1

\* totalPages <= 1   (false for NaN)
AtMostOne(n) == n # NaN /\ n <= 1

\* variant: every call of resolve or reject settles the promise anew
Settle_LastWins(cur, new) == new

\* resolve(..) / reject(..) of the promise fetchPaged returns: only the
\* first call settles it
Settle(cur, new) == IF cur = "pending" THEN new ELSE cur

\* variant: the push loop stops at page < totalPages
PushLoop_OffByOne(totalPages) ==
  [p \in QueuedPages |-> IF totalPages # NaN /\ p < totalPages THEN "queued" ELSE "none"]

\* the tasks the push loop `for (page = 2; page <= totalPages; page++)` queues
PushLoop(totalPages) ==
  [p \in QueuedPages |-> IF totalPages # NaN /\ p <= totalPages THEN "queued" ELSE "none"]

\* --------------------------------------------------------------- state
VARIABLES
  pc,          \* position of apply
  runError,    \* the error apply rejected with
  concurrent,  \* options.concurrent
  discovery,   \* discovery requests issued so far, in order
  answers,     \* how each discovery request was answered, in order
  addTypes,    \* addType calls so far, in order
  nodes,       \* addNode calls so far, in order
  ep,          \* endpoint whose fetchPaged apply awaits (0: none yet)
  requested,   \* requested[e][p]: HTTP requests issued for page p of e
  p1,          \* p1[e]: state of the first request of fetchPaged(e)
  hdrItems,    \* totalItems of fetchPaged(e)
  hdrPages,    \* totalPages of fetchPaged(e)
  resData,     \* res.data of fetchPaged(e)
  outcome,     \* state of the promise fetchPaged(e) returned
  queue,       \* state of the queue of fetchPaged(e)
  task,        \* task[e][p]: state of the queue task of page p
  drained,     \* drained[e]: the queue emitted 'drain'
  response,    \* response[e][p]: what the API answered for page p of e
  store,       \* the nodes the host graph store holds, one per _id
  run,         \* which run of apply this is
  first        \* the first run: the store it left and the remote data it saw

vars == <<pc, runError, concurrent, discovery, answers, addTypes, nodes, ep, requested,
          p1, hdrItems, hdrPages, resData, outcome, queue, task, drained, response,
          store, run, first>>

applyVars == <<pc, runError, discovery, answers, addTypes, nodes, ep, store, run, first>>
fetchVars == <<requested, p1, hdrItems, hdrPages, resData, outcome, queue, task, drained, response>>

\* nothing is known of the remote data before the first run has ended
NoFirstRun ==
  [store |-> {},
   response |-> [e \in Endpoints |-> [p \in Pages |-> "none"]],
   hdrItems |-> [e \in Endpoints |-> NaN],
   hdrPages |-> [e \in Endpoints |-> NaN]]

Init ==
  /\ store = {}
  /\ run = 1
  /\ first = NoFirstRun
  /\ pc = "idle"
  /\ runError = "none"
  /\ concurrent \in 1..MaxConcurrent
  /\ discovery = <<>>
  /\ answers = <<>>
  /\ addTypes = <<>>
  /\ nodes = <<>>
  /\ ep = 0
  /\ requested = [e \in Endpoints |-> [p \in Pages |-> 0]]
  /\ p1 = [e \in Endpoints |-> "none"]
  /\ hdrItems = [e \in Endpoints |-> NaN]
  /\ hdrPages = [e \in Endpoints |-> NaN]
  /\ resData = [e \in Endpoints |-> ArrayVal(<<>>)]
  /\ outcome = [e \in Endpoints |-> "none"]
  /\ queue = [e \in Endpoints |-> "none"]
  /\ task = [e \in Endpoints |-> [p \in QueuedPages |-> "none"]]
  /\ drained = [e \in Endpoints |-> FALSE]
  /\ response = [e \in Endpoints |-> [p \in Pages |-> "none"]]

\* requests of fetchPaged(e) dispatched by the queue and not yet answered
InFlight(e) == {p \in QueuedPages : task[e][p] = "running"}

\* variant: apply goes on without waiting for fetchPaged to settle
ResumePending_NoAwait == pc = "fetching" /\ outcome[ep] # "none"

\* the continuation of `await fetchPaged(..)` in apply is ready to run
ResumePending == pc = "fetching" /\ outcome[ep] # "pending"

\* what the remote API answered to a request
Answer(ok) == IF ok THEN "ok" ELSE "error"
Answered(ok, kind) == IF ok THEN kind ELSE "error"

\* ------------------------------------------------------------- apply
\* apply() up to its first await: GET restUrl
Apply ==
  /\ pc = "idle"
  /\ pc' = "reach"
  /\ discovery' = Append(discovery, "root")
  /\ UNCHANGED <<runError, concurrent, answers, addTypes, nodes, ep, store, run, first>>
  /\ UNCHANGED fetchVars

\* variant: the failure of GET restUrl is swallowed and apply goes on
RootResponse_NoThrow(ok) ==
  /\ pc = "reach"
  /\ answers' = Append(answers, Answer(ok))
  /\ pc' = "types"
  /\ discovery' = Append(discovery, "types")
  /\ UNCHANGED <<runError, concurrent, addTypes, nodes, ep, store, run, first>>
  /\ UNCHANGED fetchVars

\* response of GET restUrl; on success apply goes on to GET /types
RootResponse(ok) ==
  /\ pc = "reach"
  /\ answers' = Append(answers, Answer(ok))
  /\ IF ok
       THEN /\ pc' = "types"
            /\ discovery' = Append(discovery, "types")
            /\ UNCHANGED runError
       ELSE /\ pc' = "failed"
            /\ runError' = "unreachable"
            /\ UNCHANGED discovery
  /\ UNCHANGED <<concurrent, addTypes, nodes, ep, store, run, first>>
  /\ UNCHANGED fetchVars

\* response of GET /types; on success apply goes on to GET /taxonomies
TypesResponse(ok) ==
  /\ pc = "types"
  /\ answers' = Append(answers, Answer(ok))
  /\ IF ok
       THEN /\ pc' = "taxonomies"
            /\ discovery' = Append(discovery, "taxonomies")
            /\ UNCHANGED runError
       ELSE /\ pc' = "failed"
            /\ runError' = "http"
            /\ UNCHANGED discovery
  /\ UNCHANGED <<concurrent, addTypes, nodes, ep, store, run, first>>
  /\ UNCHANGED fetchVars

\* fetchPaged(endpoint e) up to its first await: GET page 1
StartFetch(e) ==
  /\ pc' = "fetching"
  /\ ep' = e
  /\ outcome' = [outcome EXCEPT ![e] = "pending"]
  /\ p1' = [p1 EXCEPT ![e] = "inflight"]
  /\ requested' = [requested EXCEPT ![e][1] = @ + 1]

\* response of GET /taxonomies; on success the two addType loops run and
\* the first endpoint's fetchPaged starts
TaxonomiesResponse(ok) ==
  /\ pc = "taxonomies"
  /\ answers' = Append(answers, Answer(ok))
  /\ IF ok
       THEN /\ addTypes' = addTypes \o PostTypes \o TaxonomiesListing
            /\ StartFetch(1)
            /\ UNCHANGED runError
       ELSE /\ pc' = "failed"
            /\ runError' = "http"
            /\ UNCHANGED <<addTypes, ep, outcome, p1, requested>>
  /\ UNCHANGED <<concurrent, discovery, nodes, store, run, first>>
  /\ UNCHANGED <<hdrItems, hdrPages, resData, queue, task, drained, response>>

\* the endpoint is fetched by the first loop (content types)
IsPostEndpoint(e) == e <= Len(PostTypes)

\* remote data: the property posts carry for a taxonomy (its rest_base)
RestBase == [category |-> "categories"]
TaxonomyTypes == {TaxonomiesListing[i] : i \in DOMAIN TaxonomiesListing}

\* a property that is missing
Undefined == -2

\* remote data: record.id; posts and terms are numbered independently, so a
\* post and a term can carry the same id
IdOf(rec) == IF rec = Char THEN Undefined ELSE rec % 100

\* remote data: post.hasOwnProperty(propName); every other record refers to
\* terms
HasOwnProperty(rec, prop) == rec # Char /\ prop = "categories" /\ rec % 2 = 1

\* remote data: post[propName], the ids of the terms the post refers to
Property(rec, prop) == <<rec % 100, 7>>

\* `${id}`
Template(id) == IF id = Undefined THEN "undefined" ELSE ToString(id)

\* this.source.makeUid: the store's id normalization, one id per string
makeUid(s) == "uid(" \o s \o ")"

\* makePostId = id => this.source.makeUid(`post-${id}`)
makePostId(id) == makeUid("post-" \o Template(id))

\* variant: terms share the prefix of posts
makeTermId_PostPrefix(id) == makeUid("post-" \o Template(id))

\* makeTermId = id => this.source.makeUid(`term-${id}`)
makeTermId(id) == makeUid("term-" \o Template(id))

\* variant: a taxonomy the post does not refer to gets an empty list
Refs_EmptyWhenAbsent(rec) ==
  [t \in TaxonomyTypes |->
     IF HasOwnProperty(rec, RestBase[t])
       THEN [j \in 1..Len(Property(rec, RestBase[t])) |-> makeTermId(Property(rec, RestBase[t])[j])]
       ELSE <<>>]

\* refs of a post: one key per taxonomy whose property the post has
Refs(rec) ==
  [t \in {x \in TaxonomyTypes : HasOwnProperty(rec, RestBase[x])} |->
     [j \in 1..Len(Property(rec, RestBase[t])) |-> makeTermId(Property(rec, RestBase[t])[j])]]

\* the node of `this.source.addNode(post.type, {..})`; rec stands for the
\* copied fields (title, date, slug, content, excerpt)
PostNode(e, rec) ==
  [endpoint |-> e, rec |-> rec, _id |-> makePostId(IdOf(rec)), refs |-> Refs(rec)]

\* the node of `this.source.addNode(term.taxonomy, {..})`; rec stands for the
\* copied fields (slug, name, count); a term node has no refs
TermNode(e, rec) ==
  [endpoint |-> e, rec |-> rec, _id |-> makeTermId(IdOf(rec)), refs |-> <<>>]

\* variant: the stable id is made from the record's position in the result
AddNodes_IdFromPosition(e, val) ==
  [i \in 1..Len(val.items) |->
     IF IsPostEndpoint(e)
       THEN [PostNode(e, val.items[i]) EXCEPT !._id = makePostId(i)]
       ELSE [TermNode(e, val.items[i]) EXCEPT !._id = makeTermId(i)]]

\* variant: the loop stops one record early
AddNodes_DropLast(e, val) ==
  [i \in 1..(Len(val.items) - 1) |->
     IF IsPostEndpoint(e) THEN PostNode(e, val.items[i]) ELSE TermNode(e, val.items[i])]

\* the addNode calls of `for (const post of posts)` / `for (const term of terms)`
AddNodes(e, val) ==
  [i \in 1..Len(val.items) |->
     IF IsPostEndpoint(e) THEN PostNode(e, val.items[i]) ELSE TermNode(e, val.items[i])]

\* the store's addNode: a node replaces the one that has its _id
AddNode(st, n) == {m \in st : m._id # n._id} \cup {n}

\* the store after the addNode calls ns, in order
RECURSIVE AddAll(_, _)
AddAll(st, ns) == IF ns = <<>> THEN st ELSE AddAll(AddNode(st, Head(ns)), Tail(ns))

\* apply continues after `await fetchPaged(..)` settled
ApplyResume ==
  /\ ResumePending
  /\ IF outcome[ep] = "rejected"
       THEN /\ pc' = "failed"
            /\ runError' = "fetch"
            /\ UNCHANGED <<nodes, store, ep, outcome, p1, requested>>
       ELSE IF resData[ep].t = "object"
         THEN \* for..of over a value that is not iterable
              /\ pc' = "failed"
              /\ runError' = "iterate"
              /\ UNCHANGED <<nodes, store, ep, outcome, p1, requested>>
         ELSE /\ nodes' = nodes \o AddNodes(ep, resData[ep])
              /\ store' = AddAll(store, AddNodes(ep, resData[ep]))
              /\ UNCHANGED runError
              /\ IF ep < NumEndpoints
                   THEN StartFetch(ep + 1)
                   ELSE /\ pc' = "done"
                        /\ UNCHANGED <<ep, outcome, p1, requested>>
  /\ UNCHANGED <<concurrent, discovery, answers, addTypes, run, first>>
  /\ UNCHANGED <<hdrItems, hdrPages, resData, queue, task, drained, response>>

\* --------------------------------------------------------- fetchPaged
\* response of the first request of fetchPaged(ep)
Page1Response(ok, items, pages, kind) ==
  /\ pc = "fetching"
  /\ p1[ep] = "inflight"
  /\ response' = [response EXCEPT ![ep][1] = Answered(ok, kind)]
  /\ IF ~ok
       THEN \* the async executor throws: neither resolve nor reject is called
            /\ p1' = [p1 EXCEPT ![ep] = "failed"]
            /\ UNCHANGED <<hdrItems, hdrPages, resData, outcome, queue, task>>
       ELSE /\ p1' = [p1 EXCEPT ![ep] = "ok"]
            /\ hdrItems' = [hdrItems EXCEPT ![ep] = items]
            /\ hdrPages' = [hdrPages EXCEPT ![ep] = pages]
            /\ LET r == ensureArrayData(Body(kind, ep, 1)) IN
               IF r.threw
                 THEN /\ outcome' = [outcome EXCEPT ![ep] = Settle(@, "rejected")]
                      /\ UNCHANGED <<resData, queue, task>>
                 ELSE /\ resData' = [resData EXCEPT ![ep] = r.val]
                      /\ IF Falsy(items) \/ AtMostOne(pages)
                           THEN /\ outcome' = [outcome EXCEPT ![ep] = Settle(@, "resolved")]
                                /\ UNCHANGED <<queue, task>>
                           ELSE /\ queue' = [queue EXCEPT ![ep] = "active"]
                                /\ task' = [task EXCEPT ![ep] = PushLoop(pages)]
                                /\ UNCHANGED outcome
  /\ UNCHANGED <<requested, drained, concurrent>>
  /\ UNCHANGED applyVars

\* variant: the queue starts tasks without counting the running ones
CanDispatch_NoCap(e, p) ==
  /\ queue[e] = "active"
  /\ task[e][p] = "queued"
  /\ \A q \in QueuedPages : task[e][q] = "queued" => p <= q

\* the queue may start the task of page p of endpoint e
CanDispatch(e, p) ==
  /\ queue[e] = "active"
  /\ task[e][p] = "queued"
  /\ \A q \in QueuedPages : task[e][q] = "queued" => p <= q
  /\ Cardinality(InFlight(e)) < concurrent

\* the queue starts the next task: taskHandler issues axios.get(task.id)
Dispatch(e, p) ==
  /\ ~ResumePending
  /\ CanDispatch(e, p)
  /\ task' = [task EXCEPT ![e][p] = "running"]
  /\ requested' = [requested EXCEPT ![e][p] = @ + 1]
  /\ UNCHANGED <<p1, hdrItems, hdrPages, resData, outcome, queue, drained, response, concurrent>>
  /\ UNCHANGED applyVars

\* queue.on('task_finish', ..)
TaskFinish(e, p, kind) ==
  /\ task' = [task EXCEPT ![e][p] = "finished"]
  /\ LET r == ensureArrayData(Body(kind, e, p)) IN
     IF r.threw
       THEN /\ outcome' = [outcome EXCEPT ![e] = Settle(@, "rejected")]
            /\ UNCHANGED resData
       ELSE LET ps == PushSpread(resData[e], r.val) IN
            IF ps.threw
              THEN /\ outcome' = [outcome EXCEPT ![e] = Settle(@, "rejected")]
                   /\ UNCHANGED resData
              ELSE /\ resData' = [resData EXCEPT ![e] = ps.val]
                   /\ UNCHANGED outcome
  /\ UNCHANGED queue

\* variant: the task_failed handler tears the queue down without rejecting
TaskFailed_NoReject(e, p) ==
  /\ task' = [task EXCEPT ![e][p] = "failed"]
  /\ queue' = [queue EXCEPT ![e] = "destroyed"]
  /\ UNCHANGED <<resData, outcome>>

\* variant: the task_failed handler rejects and leaves the queue running
TaskFailed_NoDestroy(e, p) ==
  /\ task' = [task EXCEPT ![e][p] = "failed"]
  /\ outcome' = [outcome EXCEPT ![e] = Settle(@, "rejected")]
  /\ UNCHANGED <<resData, queue>>

\* queue.on('task_failed', ..): reject, then queue.destroy()
TaskFailed(e, p) ==
  /\ task' = [task EXCEPT ![e][p] = "failed"]
  /\ outcome' = [outcome EXCEPT ![e] = Settle(@, "rejected")]
  /\ queue' = [queue EXCEPT ![e] = "destroyed"]
  /\ UNCHANGED resData

\* the request taskHandler issued for page p of endpoint e is answered
TaskResponse(e, p, ok, kind) ==
  /\ ~ResumePending
  /\ task[e][p] = "running"
  /\ response' = [response EXCEPT ![e][p] = Answered(ok, kind)]
  /\ IF queue[e] = "destroyed"
       THEN \* the queue was torn down: the result is dropped
            /\ task' = [task EXCEPT ![e][p] = "ignored"]
            /\ UNCHANGED <<resData, outcome, queue>>
       ELSE IF ok THEN TaskFinish(e, p, kind) ELSE TaskFailed(e, p)
  /\ UNCHANGED <<requested, p1, hdrItems, hdrPages, drained, concurrent>>
  /\ UNCHANGED applyVars

\* variant: 'drain' fires as soon as no task is waiting, running ones or not
CanDrain_Early(e) ==
  /\ queue[e] = "active"
  /\ ~drained[e]
  /\ \E p \in QueuedPages : task[e][p] # "none"
  /\ \A p \in QueuedPages : task[e][p] # "queued"

\* the queue of endpoint e has run all its tasks ('drain' follows the end of a
\* task: a queue nothing was pushed to emits none)
CanDrain(e) ==
  /\ queue[e] = "active"
  /\ ~drained[e]
  /\ \E p \in QueuedPages : task[e][p] # "none"
  /\ \A p \in QueuedPages : task[e][p] \notin {"queued", "running"}

\* queue.on('drain', ..)
Drain(e) ==
  /\ ~ResumePending
  /\ CanDrain(e)
  /\ drained' = [drained EXCEPT ![e] = TRUE]
  /\ outcome' = [outcome EXCEPT ![e] = Settle(@, "resolved")]
  /\ UNCHANGED <<requested, p1, hdrItems, hdrPages, resData, queue, task, response, concurrent>>
  /\ UNCHANGED applyVars

Next ==
  \/ Apply
  \/ \E ok \in BOOLEAN : RootResponse(ok)
  \/ \E ok \in BOOLEAN : TypesResponse(ok)
  \/ \E ok \in BOOLEAN : TaxonomiesResponse(ok)
  \/ ApplyResume
  \/ \E ok \in BOOLEAN, items \in ItemsValues, pages \in PagesValues, kind \in BodyKinds :
       Page1Response(ok, items, pages, kind)
  \/ \E e \in Endpoints, p \in QueuedPages : Dispatch(e, p)
  \/ \E e \in Endpoints, p \in QueuedPages, ok \in BOOLEAN, kind \in BodyKinds :
       TaskResponse(e, p, ok, kind)
  \/ \E e \in Endpoints : Drain(e)

Spec == Init /\ [][Next]_vars

\* ------------------------------------------------------------ two runs
\* apply is run again after a run that completed, against the same store
Rerun ==
  /\ pc = "done"
  /\ run = 1
  /\ run' = 2
  /\ first' = [store |-> store, response |-> response,
               hdrItems |-> hdrItems, hdrPages |-> hdrPages]
  /\ pc' = "idle"
  /\ runError' = "none"
  /\ discovery' = <<>>
  /\ answers' = <<>>
  /\ addTypes' = <<>>
  /\ nodes' = <<>>
  /\ ep' = 0
  /\ requested' = [e \in Endpoints |-> [p \in Pages |-> 0]]
  /\ p1' = [e \in Endpoints |-> "none"]
  /\ hdrItems' = [e \in Endpoints |-> NaN]
  /\ hdrPages' = [e \in Endpoints |-> NaN]
  /\ resData' = [e \in Endpoints |-> ArrayVal(<<>>)]
  /\ outcome' = [e \in Endpoints |-> "none"]
  /\ queue' = [e \in Endpoints |-> "none"]
  /\ task' = [e \in Endpoints |-> [p \in QueuedPages |-> "none"]]
  /\ drained' = [e \in Endpoints |-> FALSE]
  /\ response' = [e \in Endpoints |-> [p \in Pages |-> "none"]]
  /\ UNCHANGED <<concurrent, store>>

\* the remote data is the same in both runs: the second run gets the answer
\* the first run got
SameFirstPage(items, pages, kind) ==
  run = 2 =>
    /\ ep \in Endpoints
    /\ first.response[ep][1] = kind
    /\ first.hdrItems[ep] = items
    /\ first.hdrPages[ep] = pages

SamePage(e, p, kind) == run = 2 => first.response[e][p] = kind

TwiceNext ==
  \/ Apply
  \/ RootResponse(TRUE)
  \/ TypesResponse(TRUE)
  \/ TaxonomiesResponse(TRUE)
  \/ ApplyResume
  \/ \E items \in ItemsValues, pages \in PagesValues, kind \in BodyKinds :
       SameFirstPage(items, pages, kind) /\ Page1Response(TRUE, items, pages, kind)
  \/ \E e \in Endpoints, p \in QueuedPages : Dispatch(e, p)
  \/ \E e \in Endpoints, p \in QueuedPages, kind \in BodyKinds :
       SamePage(e, p, kind) /\ TaskResponse(e, p, TRUE, kind)
  \/ \E e \in Endpoints : Drain(e)
  \/ Rerun

TwiceSpec == Init /\ [][TwiceNext]_vars

\* every request is eventually answered and every ready handler runs
FairSpec == Spec /\ WF_vars(Next)

\* ------------------------------------------------------------ properties
\* the first response of fetchPaged(e) reported total-items zero or absent,
\* or total-pages <= 1
SinglePage(e) ==
  \/ hdrItems[e] \in {NaN, 0}
  \/ hdrPages[e] \in 0..1

\* the pages fetchPaged(e) is due to deliver once the first response is in
PagesDue(e) == IF SinglePage(e) THEN {1} ELSE 1..hdrPages[e]

\* the body is a record sequence, as such or as text
IsSequenceKind(kind) == kind \in {"array", "textArray"}

\* the body is neither a record sequence nor text encoding one
IsMalformedKind(kind) == kind \in {"textObject", "textString", "garbage"}

\* number of occurrences of x in the sequence s
Count(s, x) == Cardinality({i \in DOMAIN s : s[i] = x})

\* some request for a page of endpoint e failed at the transport layer
PageFailed(e) == \E p \in Pages : response[e][p] = "error"

\* addNode was never called for a record fetched from endpoint e
NoNodesOf(e) == \A i \in DOMAIN nodes : nodes[i].endpoint # e

\* C1: during any fetchPaged, the number of page requests dispatched by the
\* queue and not yet answered never exceeds options.concurrent.
C1_ConcurrencyCap == \A e \in Endpoints : Cardinality(InFlight(e)) <= concurrent

C1_Witness ==
  \E e \in Endpoints :
    /\ Cardinality(InFlight(e)) = concurrent
    /\ \E p \in QueuedPages : task[e][p] = "queued"

\* C2: when the first response reports total-pages T > 1 with total-items > 0,
\* no page is ever requested twice and no page beyond T is requested, and once
\* fetchPaged has resolved exactly one request was issued for each page 1..T.
C2_ExactlyTRequests ==
  \A e \in Endpoints :
    (p1[e] = "ok" /\ ~SinglePage(e) /\ hdrPages[e] # NaN) =>
      /\ \A p \in Pages : requested[e][p] <= (IF p <= hdrPages[e] THEN 1 ELSE 0)
      /\ outcome[e] = "resolved" => \A p \in 1..hdrPages[e] : requested[e][p] = 1

C2_Witness ==
  \E e \in Endpoints :
    /\ hdrPages[e] = MaxPages
    /\ outcome[e] = "resolved"
    /\ \A p \in Pages : IsSequenceKind(response[e][p]) /\ requested[e][p] = 1

C4_FirstFailureRejects ==
  \A e \in Endpoints : (p1[e] = "failed") ~> (outcome[e] = "rejected")

\* C5: once a queued page task has failed, fetchPaged is rejected, and it is
\* never resolved, whatever the other tasks do.
C5_TaskFailureRejects ==
  \A e \in Endpoints :
    (\E p \in QueuedPages : task[e][p] = "failed") => outcome[e] = "rejected"

C5_Witness ==
  \E e \in Endpoints :
    /\ task[e][3] = "failed"
    /\ task[e][2] = "finished"
    /\ IsSequenceKind(response[e][2])
    /\ pc = "failed"

\* C6: whenever fetchPaged has resolved, every queued task of pages 2..T has
\* finished and every record of every page 1..T that came as a record sequence
\* occurs exactly once in the resolved sequence.
C6_AllRecordsOnce ==
  \A e \in Endpoints :
    outcome[e] = "resolved" =>
      \A p \in PagesDue(e) :
        /\ p > 1 => task[e][p] = "finished"
        /\ IsSequenceKind(response[e][p]) =>
             \A i \in 1..PerPage : Count(resData[e].items, Records(e, p)[i]) = 1

C6_Witness ==
  \E e \in Endpoints :
    /\ outcome[e] = "resolved"
    /\ hdrPages[e] = MaxPages
    /\ \A p \in Pages : IsSequenceKind(response[e][p])
    /\ Len(resData[e].items) = MaxPages * PerPage

\* C7: in the sequence fetchPaged resolved with, the records of each page stand
\* next to each other in the order the API returned them, whatever the order
\* in which the pages arrived.
C7_PagesContiguous ==
  \A e \in Endpoints :
    (outcome[e] = "resolved" /\ resData[e].t = "array") =>
      \A p \in PagesDue(e) :
        IsSequenceKind(response[e][p]) =>
          \E k \in 0..(Len(resData[e].items) - PerPage) :
            SubSeq(resData[e].items, k + 1, k + PerPage) = Records(e, p)

C7_Witness ==
  \E e \in Endpoints :
    /\ outcome[e] = "resolved"
    /\ resData[e].items = Records(e, 1) \o Records(e, 3) \o Records(e, 2)

\* C8: if any page request of an endpoint fails, addNode is never called for a
\* record of that endpoint and apply eventually fails.
C8_FailedPageFailsRun ==
  /\ \A e \in Endpoints : [](PageFailed(e) => NoNodesOf(e))
  /\ \A e \in Endpoints : PageFailed(e) ~> (pc = "failed")

\* the reachability request GET restUrl failed
RootFailed == Len(answers) >= 1 /\ answers[1] = "error"

\* C9: if the reachability request fails, apply fails with the unreachable
\* base URL error, and no addType call, no addNode call and no HTTP request
\* other than the reachability request ever occurs.
C9_UnreachableAborts ==
  RootFailed =>
    /\ pc = "failed"
    /\ runError = "unreachable"
    /\ addTypes = <<>>
    /\ nodes = <<>>
    /\ discovery = <<"root">>
    /\ \A e \in Endpoints, p \in Pages : requested[e][p] = 0

C9_Witness == RootFailed /\ pc = "failed"

\* C10: if the body of any page response is neither a record sequence nor
\* text encoding one, fetchPaged never resolves.
C10_MalformedBodyRejects ==
  \A e \in Endpoints, p \in Pages :
    IsMalformedKind(response[e][p]) => outcome[e] # "resolved"

\* C11: for every response body, ensureArrayData either raises an error or
\* returns a sequence of records; it never returns anything else.
C11_NormalizerYieldsSequence ==
  \A e \in Endpoints, p \in Pages :
    response[e][p] \in BodyKinds =>
      LET r == ensureArrayData(Body(response[e][p], e, p)) IN
        r.threw \/ r.val.t = "array"

\* C12: for every post node and every known taxonomy, refs has the taxonomy's
\* key exactly when the post has the taxonomy's property, and then its value
\* is the stable term id of each referenced id, in the same order and number.
C12_RefsMatchProperties ==
  \A i \in DOMAIN nodes :
    IsPostEndpoint(nodes[i].endpoint) =>
      \A t \in TaxonomyTypes :
        LET n == nodes[i]
            has == HasOwnProperty(n.rec, RestBase[t])
            ids == Property(n.rec, RestBase[t])
        IN /\ (t \in DOMAIN n.refs) <=> has
           /\ has => /\ Len(n.refs[t]) = Len(ids)
                     /\ \A j \in 1..Len(ids) :
                          n.refs[t][j] = makeUid("term-" \o ToString(ids[j]))

C12_Witness ==
  \E i, j \in DOMAIN nodes :
    /\ IsPostEndpoint(nodes[i].endpoint)
    /\ IsPostEndpoint(nodes[j].endpoint)
    /\ DOMAIN nodes[i].refs = {"category"}
    /\ Len(nodes[i].refs["category"]) = 2
    /\ nodes[j].rec # Char
    /\ DOMAIN nodes[j].refs = {}

\* C13: no post node and term node in the store share an _id, also when the
\* post and the term carry the same remote numeric id.
C13_NamespacesDisjoint ==
  \A i, j \in DOMAIN nodes :
    (IsPostEndpoint(nodes[i].endpoint) /\ ~IsPostEndpoint(nodes[j].endpoint)) =>
      nodes[i]._id # nodes[j]._id

C13_Witness ==
  \E i, j \in DOMAIN nodes :
    /\ IsPostEndpoint(nodes[i].endpoint)
    /\ ~IsPostEndpoint(nodes[j].endpoint)
    /\ nodes[i].rec # Char
    /\ nodes[j].rec # Char
    /\ nodes[i].rec % 100 = nodes[j].rec % 100

\* the records of page p of endpoint e were added before those of page q
PageBefore(e, p, q) ==
  \E i, j \in DOMAIN nodes :
    /\ i < j
    /\ nodes[i].rec = Records(e, p)[1]
    /\ nodes[j].rec = Records(e, q)[1]

\* C14: when apply has run twice against the same remote data, the store holds
\* after the second run the same ids with the same nodes as after the first,
\* whatever the order in which the pages arrived in either run.
C14_SecondRunSameStore == (run = 2 /\ pc = "done") => store = first.store

C14_Witness ==
  /\ run = 2
  /\ pc = "done"
  /\ \E e \in Endpoints : hdrPages[e] = MaxPages /\ PageBefore(e, 3, 2)
  /\ \E n \in store : n.rec = Records(1, 3)[1]

\* the addNode calls made for endpoint e, in order
NodesOf(e) == SelectSeq(nodes, LAMBDA n : n.endpoint = e)

\* C15: when apply has completed, addNode was called exactly once for every
\* record every fetchPaged returned, and for nothing else.
C15_OneNodePerRecord ==
  pc = "done" =>
    \A e \in Endpoints :
      /\ outcome[e] = "resolved"
      /\ Len(NodesOf(e)) = Len(resData[e].items)
      /\ \A i \in 1..Len(resData[e].items) : NodesOf(e)[i].rec = resData[e].items[i]
      /\ \A p \in PagesDue(e) :
           IsSequenceKind(response[e][p]) =>
             \A i \in 1..PerPage :
               Cardinality({k \in DOMAIN nodes : nodes[k].rec = Records(e, p)[i]}) = 1

C15_Witness ==
  /\ pc = "done"
  /\ Len(nodes) = NumEndpoints * MaxPages * PerPage
  /\ \A i \in DOMAIN nodes : nodes[i].rec # Char

\* a request of fetchPaged(e) is unanswered
Busy(e) == p1[e] = "inflight" \/ InFlight(e) # {}

\* C16: no request is issued for an endpoint before the fetchPaged of the
\* endpoint before it has resolved and addNode was called for all its records;
\* requests of two endpoints are never unanswered at the same time.
C16_OneEndpointAtATime ==
  /\ \A e \in Endpoints :
       (e > 1 /\ requested[e][1] > 0) =>
         /\ outcome[e - 1] = "resolved"
         /\ Len(NodesOf(e - 1)) = Len(resData[e - 1].items)
  /\ \A e, f \in Endpoints : e # f => ~(Busy(e) /\ Busy(f))

C16_Witness ==
  /\ p1[2] = "inflight"
  /\ hdrPages[1] = MaxPages
  /\ Len(NodesOf(1)) = MaxPages * PerPage

\* a queued page task of fetchPaged(e) has failed
TaskHasFailed(e) == \E p \in QueuedPages : task[e][p] = "failed"

\* C17: after a queued page task has failed, no further page request is
\* issued for that fetchPaged, the tasks still waiting stay waiting, and the
\* answers to the requests in flight change neither the result nor the outcome.
C17_FailureStopsQueue ==
  [][\A e \in Endpoints :
       TaskHasFailed(e) =>
         /\ requested'[e] = requested[e]
         /\ \A p \in QueuedPages : task[e][p] = "queued" => task'[e][p] = "queued"
         /\ resData'[e] = resData[e]
         /\ outcome'[e] = outcome[e]]_vars

C17_Witness ==
  \E e \in Endpoints :
    /\ task[e][2] = "failed"
    /\ task[e][3] = "queued"
    /\ requested[e][3] = 0
    /\ pc = "failed"

\* C18: once fetchPaged has been rejected, for whatever reason, it issues no
\* further page request.
C18_RejectionStopsQueue ==
  [][\A e \in Endpoints : outcome[e] = "rejected" => requested'[e] = requested[e]]_vars

\* C19: when the first request succeeded with a record sequence and every
\* request is answered, fetchPaged eventually settles, whatever the pagination
\* headers say.
C19_FetchSettles ==
  \A e \in Endpoints :
    (p1[e] = "ok" /\ IsSequenceKind(response[e][1])) ~> (outcome[e] \in {"resolved", "rejected"})

\* C20: once the promise of fetchPaged is resolved or rejected, no later
\* task_finish, task_failed or drain event changes its outcome.
C20_SettlesOnce ==
  [][\A e \in Endpoints :
       outcome[e] \in {"resolved", "rejected"} => outcome'[e] = outcome[e]]_vars

C20_Witness ==
  \E e \in Endpoints : outcome[e] = "rejected" /\ drained[e]

====
